---- MODULE Spec2Model ----
(***************************************************************************)
(* Model of the query-description generator (generateQueryDescription and  *)
(* its section functions) and of the drill / query-mutation utilities      *)
(* (aggregate, breakout, filter, pivot, distribution, drillFilter,         *)
(* addOrUpdateFilter, addOrUpdateBreakout, updateDateTimeFilter,           *)
(* updateNumericFilter) of src/unnamed/part_000.                           *)
(*                                                                         *)
(* Instants are whole seconds since 1970-01-01T00:00:00 in UTC (moment     *)
(* keeps milliseconds: endOf is the bucket's last second here, and diff is *)
(* told the 999 milliseconds that instant has there), weeks start on       *)
(* Sunday (moment's default locale).                                       *)
(* Only the plain-string rendering (options.jsx = false) is modelled.      *)
(***************************************************************************)
EXTENDS Integers, Sequences, FiniteSets, TLC

VARIABLES question, last, nsteps, tableMetadata, options, description,
          loop, pc

vars == <<question, last, nsteps, tableMetadata, options, description,
          loop, pc>>

(***************************************************************************)
(* Bounds of the model.                                                    *)
(***************************************************************************)
\* number of drill operations applied in one behaviour of Spec
MaxSteps == 2
\* longest aggregation list of a described query
MaxAggs == 3

\* the calls made on one query by the filter specification
MaxCalls == 3

(***************************************************************************)
(* Time: the parts of moment the drill utilities call.                     *)
(***************************************************************************)
Min(a, b) == IF a <= b THEN a ELSE b

Max(a, b) == IF a >= b THEN a ELSE b

\* JavaScript's truncation toward zero of n / d (moment's absFloor), d > 0
TruncDiv(n, d) == IF n >= 0 THEN n \div d ELSE -((-n) \div d)

\* days since 1970-01-01 of the civil date y-m-d (proleptic Gregorian)
DaysFromCivil(y, m, d) ==
  LET yy  == IF m <= 2 THEN y - 1 ELSE y
      era == yy \div 400
      yoe == yy - era * 400
      mp  == IF m > 2 THEN m - 3 ELSE m + 9
      doy == (153 * mp + 2) \div 5 + d - 1
      doe == yoe * 365 + yoe \div 4 - yoe \div 100 + doy
  IN  era * 146097 + doe - 719468

\* the civil year of a day number z >= 0: at most 366 days make a year
YearOfDay(z) ==
  IF z >= DaysFromCivil(1970 + z \div 366 + 1, 1, 1)
  THEN 1970 + z \div 366 + 1
  ELSE 1970 + z \div 366

\* the month of day z of year y: the months of y that have begun by z
MonthOfDay(z, y) == Cardinality({m \in 1..12 : DaysFromCivil(y, m, 1) <= z})

CivilInMonth(z, y, m) ==
  [year |-> y, month |-> m, date |-> z - DaysFromCivil(y, m, 1) + 1]

CivilInYear(z, y) == CivilInMonth(z, y, MonthOfDay(z, y))

\* the civil date of a day number
CivilFromDays(z) == CivilInYear(z, YearOfDay(z))

\* moment([y, m, d, h, mi, s]) as an instant
MakeTime(y, m, d, h, mi, s) ==
  DaysFromCivil(y, m, d) * 86400 + h * 3600 + mi * 60 + s

\* year(), month() (from 1) and date() of an instant
Civil(t) == CivilFromDays(t \div 86400)

DaysInMonth(y, m) ==
  IF m = 12 THEN 31 ELSE DaysFromCivil(y, m + 1, 1) - DaysFromCivil(y, m, 1)

\* the instant at time of day t % 86400 of the day `date` (clamped to the
\* month's length) of the month numbered total = 12 * year + (month - 1)
AddMonthsTo(t, date, total) ==
  DaysFromCivil(total \div 12, (total % 12) + 1,
                Min(date, DaysInMonth(total \div 12, (total % 12) + 1))) * 86400
    + (t % 86400)

AddMonthsFrom(t, c, n) == AddMonthsTo(t, c.date, c.year * 12 + (c.month - 1) + n)

\* moment#add(n, "months"): the day of the month is clamped to the target month
AddMonths(t, n) == AddMonthsFrom(t, Civil(t), n)

startOfCivil(t, unit, c) ==
  CASE unit = "minute"  -> t - (t % 60)
    [] unit = "hour"    -> t - (t % 3600)
    [] unit = "day"     -> t - (t % 86400)
    [] unit = "week"    -> (t - (t % 86400)) - (((t \div 86400) + 4) % 7) * 86400
    [] unit = "month"   -> DaysFromCivil(c.year, c.month, 1) * 86400
    [] unit = "quarter" ->
         DaysFromCivil(c.year, c.month - ((c.month - 1) % 3), 1) * 86400
    [] unit = "year"    -> DaysFromCivil(c.year, 1, 1) * 86400
    [] OTHER            -> t

\* moment#startOf(unit); a unit moment does not know leaves the instant as it is
startOf(t, unit) == startOfCivil(t, unit, Civil(t))

\* moment#add(n, unit)
add(t, n, unit) ==
  CASE unit = "second"  -> t + n
    [] unit = "minute"  -> t + n * 60
    [] unit = "hour"    -> t + n * 3600
    [] unit = "day"     -> t + n * 86400
    [] unit = "week"    -> t + n * 604800
    [] unit \in {"month", "quarter", "year"} ->
         AddMonths(t, n * (CASE unit = "month" -> 1 [] unit = "quarter" -> 3
                             [] unit = "year" -> 12))
    [] OTHER            -> t

\* moment#endOf(unit): the whole second of the last instant of the bucket
endOf(t, unit) ==
  IF unit \in {"minute", "hour", "day", "week", "month", "quarter", "year"}
  THEN add(startOf(t, unit), 1, unit) - 1
  ELSE t

\* the milliseconds of the instant endOf(t, unit) past its whole second: the
\* last millisecond of the bucket for a unit moment knows
endOfMillis(unit) ==
  IF unit \in {"second", "minute", "hour", "day", "week", "month", "quarter",
               "year"}
  THEN 999
  ELSE 0

\* (x + r / 1000) / den truncated toward zero, 0 <= r < 1000
TruncShift(x, r, den) ==
  IF x < 0 /\ r > 0 THEN TruncDiv(x + 1, den) ELSE TruncDiv(x, den)

\* (x + d / 1000) / den truncated toward zero, -1000 < d < 1000
TruncMillis(x, d, den) ==
  IF d < 0 THEN TruncShift(x - 1, d + 1000, den) ELSE TruncShift(x, d, den)

\* -(wholeMonthDiff + adjust) truncated toward zero, adjust being
\* (num - d / 1000) / den: a is d milliseconds further past its second than b
monthDiffTrunc(whole, num, d, den) == TruncMillis(-(whole * den + num), d, den)

\* adjust is linear across the month before or after the anchor
monthDiffAdjust(a, b, d, whole, anchor) ==
  IF b - anchor < 0 \/ (b = anchor /\ d > 0)
  THEN monthDiffTrunc(whole, b - anchor, d, anchor - AddMonths(a, whole - 1))
  ELSE monthDiffTrunc(whole, b - anchor, d, AddMonths(a, whole + 1) - anchor)

monthDiffWhole(a, b, d, whole) ==
  monthDiffAdjust(a, b, d, whole, AddMonths(a, whole))

wholeMonthDiff(ca, cb) == (cb.year - ca.year) * 12 + (cb.month - ca.month)

\* moment's monthDiff(a, b) for a.date() >= b.date(), truncated toward zero
monthDiffAnchored(a, b, d) ==
  monthDiffWhole(a, b, d, wholeMonthDiff(Civil(a), Civil(b)))

\* moment's monthDiff(a, b), truncated toward zero
monthDiff(a, b, d) ==
  IF Civil(a).date < Civil(b).date
  THEN -monthDiffAnchored(b, a, -d)
  ELSE monthDiffAnchored(a, b, d)

\* moment#diff: a.diff(b, unit), truncated toward zero, for an instant a that
\* is ms milliseconds past its whole second and an instant b on a whole
\* second; for a unit moment does not know the difference is in milliseconds
diff(a, b, unit, ms) ==
  CASE unit = "second"  -> TruncMillis(a - b, ms, 1)
    [] unit = "minute"  -> TruncMillis(a - b, ms, 60)
    [] unit = "hour"    -> TruncMillis(a - b, ms, 3600)
    [] unit = "day"     -> TruncMillis(a - b, ms, 86400)
    [] unit = "week"    -> TruncMillis(a - b, ms, 604800)
    [] unit \in {"month", "quarter", "year"} ->
         TruncDiv(monthDiff(a, b, ms),
                  CASE unit = "month" -> 1 [] unit = "quarter" -> 3
                    [] unit = "year" -> 12)
    [] OTHER            -> (a - b) * 1000 + ms

\* moment#isAfter
isAfter(a, b) == a > b

\* moment#isSame(b, unit): b lies in a's bucket
isSame(a, b, unit) == startOf(a, unit) <= b /\ b <= endOf(a, unit)

Pad2(n) == IF n < 10 THEN "0" \o ToString(n) ELSE ToString(n)

formatCivil(c, tod) ==
  ToString(c.year) \o "-" \o Pad2(c.month) \o "-" \o Pad2(c.date) \o "T"
    \o Pad2(tod \div 3600) \o ":" \o Pad2((tod % 3600) \div 60) \o ":"
    \o Pad2(tod % 60) \o "+00:00"

\* moment#format(): ISO 8601 with the offset, "YYYY-MM-DDTHH:mm:ssZ"
format(t) == formatCivil(Civil(t), t % 86400)

(***************************************************************************)
(* MBQL values.  A field reference ["field", id, {temporal-unit, binning}]  *)
(* is a record; "" is an absent option and 0 an absent id.                 *)
(* A filter operand is a tagged value, so that numbers and strings can sit *)
(* in one clause list.  An absent limit is the empty sequence.             *)
(***************************************************************************)
FieldRef(id, unit) == [id |-> id, unit |-> unit, binning |-> ""]

NoField == FieldRef(0, "")

Num(n) == [type |-> "number", num |-> n, str |-> ""]

Str(s) == [type |-> "string", num |-> 0, str |-> s]

\* a field reference given as an argument of a filter
FieldArg(ref) == [type |-> "field", num |-> ref.id, str |-> ref.unit]

\* the value of a clicked cell: null, or a number / an instant
Null == [null |-> TRUE, v |-> 0]

Val(v) == [null |-> FALSE, v |-> v]

Agg(op, field) == [op |-> op, field |-> field, id |-> 0]

Metric(id) == [op |-> "metric", field |-> NoField, id |-> id]

Filter(op, field, args) == [op |-> op, field |-> field, args |-> args]

Segment(id) == Filter("segment", NoField, <<Num(id)>>)

EmptyQuery ==
  [aggregation |-> <<>>, breakout |-> <<>>, filter |-> <<>>,
   orderBy |-> <<>>, limit |-> <<>>]

\* a question over a structured query
Structured(q) == [kind |-> "structured", query |-> q, display |-> "table"]

\* a question over a native (SQL) query: it holds no clause groups
Native == [kind |-> "native", query |-> EmptyQuery, display |-> "table"]

\* what a drill action returns: an updated question, or undefined
Return(q) == [defined |-> TRUE, question |-> q]

Undefined == [defined |-> FALSE, question |-> Native]

(***************************************************************************)
(* StructuredQuery, Filter, Breakout and Dimension (metabase-lib): the     *)
(* methods the drill utilities call.                                       *)
(***************************************************************************)
RemoveAt(s, i) == SubSeq(s, 1, i - 1) \o SubSeq(s, i + 1, Len(s))

Query_aggregate(q, a) == [q EXCEPT !.aggregation = Append(@, a)]

Query_breakout(q, b) == [q EXCEPT !.breakout = Append(@, b)]

Query_filter(q, f) == [q EXCEPT !.filter = Append(@, f)]

Query_clearAggregations(q) == [q EXCEPT !.aggregation = <<>>]

Query_clearBreakouts(q) == [q EXCEPT !.breakout = <<>>]

Query_clearSort(q) == [q EXCEPT !.orderBy = <<>>]

Query_clearLimit(q) == [q EXCEPT !.limit = <<>>]

\* filter.replace(newFilter) of the i-th filter of q
Filter_replace(q, i, f) == [q EXCEPT !.filter[i] = f]

\* breakout.replace(newBreakout) of the i-th breakout of q
Breakout_replace(q, i, b) == [q EXCEPT !.breakout[i] = b]

\* breakout.remove() of the i-th breakout of q
Breakout_remove(q, i) == [q EXCEPT !.breakout = RemoveAt(@, i)]

\* filter.dimension(): the field a filter clause is on; none (NoField) for a
\* segment or a compound filter
Filter_dimension(f) ==
  IF f.op \in {"segment", "and", "or"} THEN NoField ELSE f.field

\* Dimension#isSameBaseDimension: the same field, whatever the temporal unit
\* or binning
isSameBaseDimension(a, b) == a.id = b.id

\* question.setDefaultDisplay()
setDefaultDisplay(qn) == [qn EXCEPT !.display = "default"]

\* question.setDisplay(display)
setDisplay(qn, d) == [qn EXCEPT !.display = d]

(***************************************************************************)
(* Columns of a result set, and the helpers of queries/utils/dataset and   *)
(* schema_metadata.                                                        *)
(***************************************************************************)
Column(id, type, unit, binWidth) ==
  [id |-> id, type |-> type, unit |-> unit, binWidth |-> binWidth]

isDate(col) == col.type = "date"

isNumber(col) == col.type = "number"

\* fieldRefForColumn: the column's base field reference
fieldRefForColumn(col) == FieldRef(col.id, "")

\* fieldRefWithOption(ref, "temporal-unit", unit)
fieldRefWithTemporalUnitOption(ref, unit) == [ref EXCEPT !.unit = unit]

\* fieldRefWithOption(ref, "binning", {strategy})
fieldRefWithBinningOption(ref, strategy) == [ref EXCEPT !.binning = strategy]

\* rangeForValue: the [low, high) bucket of a value of a binned column
hasRange(v, col) == ~v.null /\ col.binWidth > 0

rangeForValue(v, col) == <<v.v, v.v + col.binWidth>>

\* parseTimestamp(value, unit): the instant a clicked temporal value names
parseTimestamp(v, unit) == v

\* a formatted instant: the text moment#format() gives, with the instant it
\* denotes kept beside it
DateStr(t) == [type |-> "string", num |-> t, str |-> format(t)]

(***************************************************************************)
(* Structured query utilities.                                             *)
(***************************************************************************)
\* FieldDimension.parseMBQLOrWarn(clause).withTemporalUnit(unit).mbql()
fieldRefWithTemporalUnit(ref, unit) == [ref EXCEPT !.unit = unit]

fieldRefWithTemporalUnitForColumn(col, unit) ==
  fieldRefWithTemporalUnit(fieldRefForColumn(col), unit)

\* the least element of a non-empty set of indices
Least(S) == CHOOSE i \in S : \A j \in S : i <= j

\* an update that replaces the last filter on the dimension, not the first
addOrUpdateFilterReplacesLast(q, newFilter) ==
  LET same == {i \in 1..Len(q.filter) :
                 /\ Filter_dimension(q.filter[i]) # NoField
                 /\ isSameBaseDimension(Filter_dimension(q.filter[i]),
                                        newFilter.field)}
  IN  IF same # {}
      THEN Filter_replace(q, CHOOSE i \in same : \A j \in same : j <= i,
                          newFilter)
      ELSE Query_filter(q, newFilter)

\* an update that always appends
addOrUpdateFilterAppends(q, newFilter) == Query_filter(q, newFilter)

addOrUpdateFilter(q, newFilter) ==
  LET same == {i \in 1..Len(q.filter) :
                 /\ Filter_dimension(q.filter[i]) # NoField
                 /\ isSameBaseDimension(Filter_dimension(q.filter[i]),
                                        newFilter.field)}
  IN  IF same # {}
      THEN Filter_replace(q, Least(same), newFilter)
      ELSE Query_filter(q, newFilter)

drillFilter(q, value, col) ==
  IF isDate(col)
  THEN IF value.null
       THEN addOrUpdateFilter(q,
              Filter("is-null",
                     fieldRefWithTemporalUnitForColumn(col, col.unit), <<>>))
       ELSE addOrUpdateFilter(q,
              Filter("=", fieldRefWithTemporalUnitForColumn(col, col.unit),
                     <<DateStr(parseTimestamp(value.v, col.unit))>>))
  ELSE IF hasRange(value, col)
       THEN addOrUpdateFilter(q,
              Filter("between", fieldRefForColumn(col),
                     <<Num(rangeForValue(value, col)[1]),
                       Num(rangeForValue(value, col)[2])>>))
       ELSE IF ~value.null
            THEN addOrUpdateFilter(q,
                   Filter("=", fieldRefForColumn(col), <<Num(value.v)>>))
            ELSE addOrUpdateFilter(q,
                   Filter("is-null", fieldRefForColumn(col), <<>>))

\* min number of points when switching units
MIN_INTERVALS == 4

UNITS == <<"minute", "hour", "day", "week", "month", "quarter", "year">>

\* Array#indexOf: the 0-based index, -1 when absent
indexOf(s, x) ==
  IF \E i \in 1..Len(s) : s[i] = x
  THEN Least({i \in 1..Len(s) : s[i] = x}) - 1
  ELSE -1

\* a ladder that wraps around instead of stopping at its finest unit
getNextUnitWrapping(unit) ==
  UNITS[((indexOf(UNITS, unit) - 1) % Len(UNITS)) + 1]

\* a ladder walked the other way: the next coarser unit
getNextUnitCoarser(unit) ==
  UNITS[Min(Len(UNITS) - 1, indexOf(UNITS, unit) + 1) + 1]

getNextUnit(unit) == UNITS[Max(0, indexOf(UNITS, unit) - 1) + 1]

\* an update that always adds a new breakout
addOrUpdateBreakoutAppends(q, newBreakout) == Query_breakout(q, newBreakout)

addOrUpdateBreakout(q, newBreakout) ==
  LET same == {i \in 1..Len(q.breakout) :
                 isSameBaseDimension(q.breakout[i], newBreakout)}
  IN  IF same # {}
      THEN Breakout_replace(q, Least(same), newBreakout)
      ELSE Query_breakout(q, newBreakout)

\* the while loop of updateDateTimeFilter: "find the largest unit with at
\* least MIN_INTERVALS"; end is ms milliseconds past its whole second
RECURSIVE findLargestUnit(_, _, _, _)
findLargestUnit(unit, start, end, ms) ==
  IF unit # getNextUnit(unit) /\ diff(end, start, unit, ms) < MIN_INTERVALS
  THEN findLargestUnit(getNextUnit(unit), start, end, ms)
  ELSE unit

\* "clamp range to unit": start.add(1, unit).startOf(unit), end.endOf(unit)
clampStart(start, unit) == startOf(add(start, 1, unit), unit)

clampEnd(end, unit) == endOf(end, unit)

\* the end of updateDateTimeFilter: start and end are rounded to the start of
\* the original unit, q holds the updated breakout
updateDateTimeFilterRounded(q, fieldRef, col, start, end) ==
  IF isAfter(start, end)
  THEN q
  ELSE IF isSame(start, end, col.unit)
       THEN addOrUpdateFilter(q,
              Filter("=", fieldRefWithTemporalUnit(fieldRef, col.unit),
                     <<DateStr(start)>>))
       ELSE addOrUpdateFilter(q,
              Filter("between", fieldRefWithTemporalUnit(fieldRef, col.unit),
                     <<DateStr(start), DateStr(end)>>))

\* a filter rounded to the unit of the breakout instead of the column's
updateDateTimeFilterClampedToBreakoutUnit(q, fieldRef, col, start, end) ==
  updateDateTimeFilterRounded(
    addOrUpdateBreakout(q,
      fieldRefWithTemporalUnit(fieldRef,
                               findLargestUnit(col.unit, start, end,
                                               endOfMillis(col.unit)))),
    fieldRef, col,
    startOf(start,
            findLargestUnit(col.unit, start, end, endOfMillis(col.unit))),
    startOf(end,
            findLargestUnit(col.unit, start, end, endOfMillis(col.unit))))

\* updateDateTimeFilter once the range is clamped to the column's unit
updateDateTimeFilterClamped(q, fieldRef, col, start, end) ==
  updateDateTimeFilterRounded(
    addOrUpdateBreakout(q,
      fieldRefWithTemporalUnit(fieldRef,
                               findLargestUnit(col.unit, start, end,
                                               endOfMillis(col.unit)))),
    fieldRef, col, startOf(start, col.unit), startOf(end, col.unit))

updateDateTimeFilter(q, col, start, end) ==
  IF col.unit # ""
  THEN updateDateTimeFilterClamped(q, fieldRefForColumn(col), col,
                                   clampStart(start, col.unit),
                                   clampEnd(end, col.unit))
  ELSE addOrUpdateFilter(q,
         Filter("between", fieldRefForColumn(col),
                <<DateStr(start), DateStr(end)>>))

\* bounds is a map's LatLngBounds: getNorth(), getWest(), getSouth(), getEast()
updateLatLonFilter(q, latitudeColumn, longitudeColumn, bounds) ==
  addOrUpdateFilter(q,
    Filter("inside", fieldRefForColumn(latitudeColumn),
           <<FieldArg(fieldRefForColumn(longitudeColumn)),
             Num(bounds.north), Num(bounds.west), Num(bounds.south),
             Num(bounds.east)>>))

updateNumericFilter(q, col, start, end) ==
  addOrUpdateFilter(q,
    Filter("between", fieldRefForColumn(col), <<Num(start), Num(end)>>))

(***************************************************************************)
(* Question drill actions.                                                 *)
(***************************************************************************)
\* an aggregate that does not look at the kind of the query
aggregateUnguarded(qn, aggregation) ==
  Return(setDefaultDisplay(
    [qn EXCEPT !.query = Query_aggregate(@, aggregation)]))

aggregate(qn, aggregation) ==
  IF qn.kind = "structured"
  THEN Return(setDefaultDisplay(
         [qn EXCEPT !.query = Query_aggregate(@, aggregation)]))
  ELSE Undefined

breakout(qn, ref) ==
  IF qn.kind = "structured"
  THEN Return(setDefaultDisplay(
         [qn EXCEPT !.query = Query_breakout(@, ref)]))
  ELSE Undefined

filter(qn, operator, col, value) ==
  IF qn.kind = "structured"
  THEN Return([qn EXCEPT !.query =
         Query_filter(@, Filter(operator, fieldRefForColumn(col),
                                <<Num(value)>>))])
  ELSE Undefined

\* an inner loop that advances past the breakout that follows a removed one
RECURSIVE pivotRemoveBreakoutsSkipping(_, _, _)
pivotRemoveBreakoutsSkipping(q, dimensionRef, i) ==
  IF i > Len(q.breakout)
  THEN q
  ELSE IF isSameBaseDimension(q.breakout[i], dimensionRef)
       THEN pivotRemoveBreakoutsSkipping(Breakout_remove(q, i), dimensionRef,
                                         i + 1)
       ELSE pivotRemoveBreakoutsSkipping(q, dimensionRef, i + 1)

\* the inner loop of pivot: remove every breakout on the drilled dimension
\* (i is not advanced after a removal)
RECURSIVE pivotRemoveBreakouts(_, _, _)
pivotRemoveBreakouts(q, dimensionRef, i) ==
  IF i > Len(q.breakout)
  THEN q
  ELSE IF isSameBaseDimension(q.breakout[i], dimensionRef)
       THEN pivotRemoveBreakouts(Breakout_remove(q, i), dimensionRef, i)
       ELSE pivotRemoveBreakouts(q, dimensionRef, i + 1)

\* the loop of pivot over the dimension drills
RECURSIVE pivotDimensions(_, _)
pivotDimensions(q, dimensions) ==
  IF dimensions = <<>>
  THEN q
  ELSE pivotDimensions(
         pivotRemoveBreakouts(
           drillFilter(q, Head(dimensions).value, Head(dimensions).column),
           fieldRefForColumn(Head(dimensions).column), 1),
         Tail(dimensions))

\* the loop of pivot over the new breakouts
RECURSIVE pivotBreakouts(_, _)
pivotBreakouts(q, breakouts) ==
  IF breakouts = <<>>
  THEN q
  ELSE pivotBreakouts(Query_breakout(q, Head(breakouts)), Tail(breakouts))

pivot(qn, breakouts, dimensions) ==
  IF qn.kind = "structured"
  THEN Return(setDefaultDisplay(
         [qn EXCEPT !.query =
            pivotBreakouts(pivotDimensions(@, dimensions), breakouts)]))
  ELSE Undefined

\* a distribution that keeps the limit
distributionKeepsLimit(qn, col) ==
  IF qn.kind = "structured"
  THEN Return(setDisplay(
         [qn EXCEPT !.query =
            Query_breakout(
              Query_aggregate(
                Query_clearSort(Query_clearBreakouts(
                  Query_clearAggregations(@))),
                Agg("count", NoField)),
              IF isDate(col)
              THEN fieldRefWithTemporalUnitOption(fieldRefForColumn(col), "month")
              ELSE IF isNumber(col)
                   THEN fieldRefWithBinningOption(fieldRefForColumn(col),
                                                  "default")
                   ELSE fieldRefForColumn(col))],
         "bar"))
  ELSE Undefined

distribution(qn, col) ==
  IF qn.kind = "structured"
  THEN LET ref == IF isDate(col)
                  THEN fieldRefWithTemporalUnitOption(
                         fieldRefForColumn(col), "month")
                  ELSE IF isNumber(col)
                       THEN fieldRefWithBinningOption(
                              fieldRefForColumn(col), "default")
                       ELSE fieldRefForColumn(col)
       IN  Return(setDisplay(
             [qn EXCEPT !.query =
                Query_breakout(
                  Query_aggregate(
                    Query_clearLimit(Query_clearSort(Query_clearBreakouts(
                      Query_clearAggregations(@)))),
                    Agg("count", NoField)),
                  ref)],
             "bar"))
  ELSE Undefined

(***************************************************************************)
(* JavaScript values of the description arrays: a string, a number, null / *)
(* undefined, or an array of values.                                       *)
(***************************************************************************)
S(s) == [k |-> "s", s |-> s, n |-> 0, a |-> <<>>]

N(n) == [k |-> "n", s |-> "", n |-> n, a |-> <<>>]

A(a) == [k |-> "a", s |-> "", n |-> 0, a |-> a]

Undef == [k |-> "u", s |-> "", n |-> 0, a |-> <<>>]

\* !!x
truthy(x) ==
  CASE x.k = "s" -> x.s # ""
    [] x.k = "n" -> x.n # 0
    [] x.k = "a" -> TRUE
    [] OTHER     -> FALSE

\* Array#join(sep): an element that is null or undefined gives "", an array
\* element its own join(",")
RECURSIVE join(_, _)
join(list, sep) ==
  IF Len(list) = 0
  THEN ""
  ELSE (CASE Head(list).k = "s" -> Head(list).s
          [] Head(list).k = "n" -> ToString(Head(list).n)
          [] Head(list).k = "a" -> join(Head(list).a, ",")
          [] OTHER              -> "")
       \o (IF Len(list) = 1 THEN "" ELSE sep \o join(Tail(list), sep))

\* x + "": String(x)
toString(x) == IF x.k = "u" THEN "null" ELSE join(<<x>>, ",")

\* the leaves of a list of values, in order
RECURSIVE flattenList(_)
flattenList(list) ==
  IF Len(list) = 0
  THEN <<>>
  ELSE (IF Head(list).k = "a" THEN flattenList(Head(list).a) ELSE <<Head(list)>>)
       \o flattenList(Tail(list))

\* _.flatten(x): the leaves of an array; [] for null and undefined
flatten(x) == IF x.k = "a" THEN flattenList(x.a) ELSE <<>>

\* Array#filter(s => !!s)
RECURSIVE filterTruthy(_)
filterTruthy(list) ==
  IF Len(list) = 0
  THEN <<>>
  ELSE (IF truthy(Head(list)) THEN <<Head(list)>> ELSE <<>>)
       \o filterTruthy(Tail(list))

\* a join that puts the joiner after every item
RECURSIVE joinListTrailing(_, _)
joinListTrailing(list, joiner) ==
  IF Len(list) = 0
  THEN <<>>
  ELSE <<Head(list), joiner>> \o joinListTrailing(Tail(list), joiner)

\* joinList: the items with the joiner between two of them (one level flat)
RECURSIVE joinList(_, _)
joinList(list, joiner) ==
  IF Len(list) <= 1
  THEN list
  ELSE <<Head(list), joiner>> \o joinList(Tail(list), joiner)

conjunctList(list, conjunction) ==
  CASE Len(list) = 0 -> Undef
    [] Len(list) = 1 -> list[1]
    [] Len(list) = 2 -> A(<<list[1], S(" "), conjunction, S(" "), list[2]>>)
    [] OTHER ->
         A(<<S(join(SubSeq(list, 1, Len(list) - 1), ", ")), S(", "),
             conjunction, S(" "), list[Len(list)]>>)

(***************************************************************************)
(* Table metadata and its lookups.                                         *)
(***************************************************************************)
\* _.findWhere(list, {id}): the index of the first entry with the id, 0 for
\* undefined
findWhere(list, id) ==
  IF \E i \in 1..Len(list) : list[i].id = id
  THEN Least({i \in 1..Len(list) : list[i].id = id})
  ELSE 0

\* stripId: a trailing " ID" is dropped
stripId(name) == IF name = "Product ID" THEN "Product" ELSE name

\* inflection.pluralize on the table names of the model
pluralize(name) ==
  CASE name = "Order"  -> "Orders"
    [] name = "Person" -> "People"
    [] OTHER           -> name

\* inflection.inflect(word, count): singular for 1, plural otherwise
inflect(word, count) == IF count = 1 THEN word ELSE word \o "s"

formatField(fieldDef) == stripId(fieldDef.display_name)

\* FIELD_REF.getFieldTarget: the field definition and the temporal unit of a
\* field reference; it throws when the table has no such field
getFieldTarget(field, md) ==
  IF findWhere(md.fields, field.id) = 0
  THEN [threw |-> TRUE, field |-> [id |-> 0, display_name |-> ""], unit |-> ""]
  ELSE [threw |-> FALSE, field |-> md.fields[findWhere(md.fields, field.id)],
        unit |-> field.unit]

\* the components of a resolved field name
fieldNameComponents(target) ==
  A(<<S(formatField(target.field))>>
      \o (IF target.unit # "" THEN <<S(" (" \o target.unit \o ")")>> ELSE <<>>))

\* a field name that does not catch the failed resolution
fieldNameOfTargetUncaught(target) == fieldNameComponents(target)

fieldNameOfTarget(target) ==
  IF target.threw THEN S("[Unknown Field]") ELSE fieldNameComponents(target)

getFieldName(md, field) == fieldNameOfTarget(getFieldTarget(field, md))

(***************************************************************************)
(* The section descriptions of generateQueryDescription.                   *)
(***************************************************************************)
getTableDescription(md) == A(<<S(pluralize(md.display_name))>>)

\* AGGREGATION.hasOptions / isNamed / getName / getContent: an
\* ["aggregation-options", clause, {display-name}] wrapper
Named(inner, name) == [op |-> "aggregation-options", inner |-> inner, name |-> name]

hasOptions(aggregation) == aggregation.op = "aggregation-options"

isNamed(aggregation) == aggregation.name # ""

\* the name of a metric of the table, or the placeholder
metricNameAt(md, i) == IF i # 0 THEN md.metrics[i].name ELSE "[Unknown Metric]"

\* the text before the field of an aggregation over a field
aggregationPrefix(op) ==
  CASE op = "avg"      -> "Average of "
    [] op = "distinct" -> "Distinct values of "
    [] op = "stddev"   -> "Standard deviation of "
    [] op = "sum"      -> "Sum of "
    [] op = "cum-sum"  -> "Cumulative sum of "
    [] op = "max"      -> "Maximum of "
    [] op = "min"      -> "Minimum of "

\* the description of one aggregation clause without options; the clauses
\* of no listed kind (expressions) are not part of the model
describeAggregation(md, aggregation) ==
  CASE aggregation.op = "metric" ->
         A(<<S(metricNameAt(md, findWhere(md.metrics, aggregation.id)))>>)
    [] aggregation.op = "rows"      -> A(<<S("Raw data")>>)
    [] aggregation.op = "count"     -> A(<<S("Count")>>)
    [] aggregation.op = "cum-count" -> A(<<S("Cumulative count")>>)
    [] aggregation.op \in {"avg", "distinct", "stddev", "sum", "cum-sum",
                           "max", "min"} ->
         A(<<S(aggregationPrefix(aggregation.op)),
             getFieldName(md, aggregation.field)>>)

\* the callback of the map in getAggregationDescription
describeAggregationClause(md, aggregation) ==
  IF hasOptions(aggregation)
  THEN IF isNamed(aggregation)
       THEN A(<<S(aggregation.name)>>)
       ELSE describeAggregation(md, aggregation.inner)
  ELSE describeAggregation(md, aggregation)

getAggregationDescription(md, q) ==
  conjunctList([i \in 1..Len(q.aggregation) |->
                  describeAggregationClause(md, q.aggregation[i])],
               S("and"))

getBreakoutDescription(md, q) ==
  IF Len(q.breakout) > 0
  THEN A(<<S("Grouped by "),
           A(joinList([i \in 1..Len(q.breakout) |->
                         getFieldName(md, q.breakout[i])],
                      S(" and ")))>>)
  ELSE Undef

\* the name of a segment of the table, or the placeholder
segmentNameAt(md, i) ==
  IF i # 0 THEN md.segments[i].name ELSE "[Unknown Segment]"

RECURSIVE getFilterClauseDescription(_, _)
getFilterClauseDescription(md, f) ==
  CASE f.op \in {"and", "or"} ->
         conjunctList([i \in 1..Len(f.args) |->
                         getFilterClauseDescription(md, f.args[i])],
                      S(f.op))
    [] f.op = "segment" ->
         S(segmentNameAt(md, findWhere(md.segments, f.args[1].num)))
    [] OTHER -> getFieldName(md, f.field)

\* a filter section that adds the operand of its first filter
getFilterDescriptionWithOperand(md, q) ==
  IF Len(q.filter) > 0
  THEN A(<<S("Filtered by "),
           getFilterClauseDescription(md, Filter("and", NoField, q.filter)),
           S(" is "), N(q.filter[1].args[1].num)>>)
  ELSE Undef

\* QUERY.getFilters gives the filters without the implied "and"
getFilterDescription(md, q) ==
  IF Len(q.filter) > 0
  THEN A(<<S("Filtered by "),
           getFilterClauseDescription(md, Filter("and", NoField, q.filter))>>)
  ELSE Undef

\* an ["aggregation", index] reference of a sort
AggregateRef(i) == [aggregation |-> i]

isAggregateField(field) == "aggregation" \in DOMAIN field

sortedName(md, q, field) ==
  IF isAggregateField(field)
  THEN getAggregationDescription(md, q)
  ELSE getFieldName(md, field)

getOrderByDescription(md, q) ==
  IF Len(q.orderBy) > 0
  THEN A(<<S("Sorted by "),
           A(joinList([i \in 1..Len(q.orderBy) |->
                         S(toString(sortedName(md, q, q.orderBy[i].field))
                             \o " "
                             \o (IF q.orderBy[i].direction = "asc"
                                 THEN "ascending" ELSE "descending"))],
                      S(" and ")))>>)
  ELSE Undef

getLimitDescription(md, q) ==
  IF q.limit # <<>>
  THEN A(<<N(q.limit[1]), S(" "), S(inflect("row", q.limit[1]))>>)
  ELSE Undef

\* sectionFns[section](tableMetadata, query, options)
sectionFn(section, md, q) ==
  CASE section = "table"       -> getTableDescription(md)
    [] section = "aggregation" -> getAggregationDescription(md, q)
    [] section = "breakout"    -> getBreakoutDescription(md, q)
    [] section = "filter"      -> getFilterDescription(md, q)
    [] section = "order-by"    -> getOrderByDescription(md, q)
    [] section = "limit"       -> getLimitDescription(md, q)

\* the truthy leaves of each requested section, the empty ones dropped
RECURSIVE describedSections(_, _, _)
describedSections(sections, md, q) ==
  IF Len(sections) = 0
  THEN <<>>
  ELSE (IF Len(filterTruthy(flatten(sectionFn(Head(sections), md, q)))) > 0
        THEN <<A(filterTruthy(flatten(sectionFn(Head(sections), md, q))))>>
        ELSE <<>>)
       \o describedSections(Tail(sections), md, q)

generateQueryDescription(md, q, opts) ==
  IF ~md.present
  THEN ""
  ELSE join(flattenList(joinList(describedSections(opts.sections, md, q),
                                 S(", "))),
            "")

\* a null query
NullQuery == [null |-> TRUE]

isNull(q) == "null" \in DOMAIN q

\* whether a section function throws a TypeError on the query: the breakout
\* and limit functions destructure it, the order-by function reads a
\* property of it (the aggregation and filter functions hand it to QUERY)
sectionFnThrows(section, q) ==
  isNull(q) /\ section \in {"breakout", "order-by", "limit"}

\* whether generateQueryDescription ends by an exception instead of a value
generateQueryDescriptionThrows(md, q, opts) ==
  /\ md.present
  /\ \E i \in 1..Len(opts.sections) : sectionFnThrows(opts.sections[i], q)

(***************************************************************************)
(* formatQueryDescription and its section functions: they describe a       *)
(* payload whose entries are display strings already.  An entry of the     *)
(* filter list holds a segment name or a field name (Undef for none).      *)
(***************************************************************************)
\* no payload (null)
NoParts ==
  [present |-> FALSE, table |-> "", aggregation |-> <<>>, breakout |-> <<>>,
   filter |-> <<>>, orderBy |-> <<>>, limit |-> <<>>]

formatTableDescription(parts) == A(<<S(pluralize(parts.table))>>)

\* the switch of formatAggregationDescription; no case gives undefined
formatAggregation(agg) ==
  CASE agg.type \in {"aggregation", "metric"} -> A(<<S(agg.arg)>>)
    [] agg.type = "rows"      -> A(<<S("Raw data")>>)
    [] agg.type = "count"     -> A(<<S("Count")>>)
    [] agg.type = "cum-count" -> A(<<S("Cumulative count")>>)
    [] agg.type \in {"avg", "distinct", "stddev", "sum", "cum-sum", "max",
                     "min"} ->
         A(<<S(aggregationPrefix(agg.type)), S(agg.arg)>>)
    [] OTHER -> Undef

\* conjunctList is called without a conjunction: it is undefined
formatAggregationDescription(parts) ==
  IF Len(parts.aggregation) = 0
  THEN A(<<>>)
  ELSE conjunctList([i \in 1..Len(parts.aggregation) |->
                       formatAggregation(parts.aggregation[i])],
                    Undef)

formatBreakoutDescription(parts) ==
  IF Len(parts.breakout) = 0
  THEN A(<<>>)
  ELSE A(<<S("Grouped by "),
           A(joinList([i \in 1..Len(parts.breakout) |-> S(parts.breakout[i])],
                      S(" and ")))>>)

\* the callback of the map in formatFilterDescription
formatFilter(f) ==
  IF f.segment.k # "u"
  THEN f.segment
  ELSE IF f.field.k # "u" THEN f.field ELSE Undef

formatFilterDescription(parts) ==
  IF Len(parts.filter) = 0
  THEN A(<<>>)
  ELSE A(<<S("Filtered by "),
           A(joinList([i \in 1..Len(parts.filter) |->
                         formatFilter(parts.filter[i])],
                      S(", ")))>>)

formatOrderByDescription(parts) ==
  IF Len(parts.orderBy) = 0
  THEN A(<<>>)
  ELSE A(<<S("Sorted by "),
           A(joinList([i \in 1..Len(parts.orderBy) |->
                         S(parts.orderBy[i].field \o " "
                             \o (IF parts.orderBy[i].direction = "asc"
                                 THEN "ascending" ELSE "descending"))],
                      S(" and ")))>>)

formatLimitDescription(parts) ==
  IF parts.limit = <<>>
  THEN A(<<>>)
  ELSE A(<<N(parts.limit[1]), S(" "), S(inflect("row", parts.limit[1]))>>)

\* sectionFns[section](parts, options) of formatQueryDescription
formatSectionFn(section, parts) ==
  CASE section = "table"       -> formatTableDescription(parts)
    [] section = "aggregation" -> formatAggregationDescription(parts)
    [] section = "breakout"    -> formatBreakoutDescription(parts)
    [] section = "filter"      -> formatFilterDescription(parts)
    [] section = "order-by"    -> formatOrderByDescription(parts)
    [] section = "limit"       -> formatLimitDescription(parts)

RECURSIVE formattedSections(_, _)
formattedSections(sections, parts) ==
  IF Len(sections) = 0
  THEN <<>>
  ELSE (IF Len(filterTruthy(flatten(formatSectionFn(Head(sections), parts)))) > 0
        THEN <<A(filterTruthy(flatten(formatSectionFn(Head(sections), parts))))>>
        ELSE <<>>)
       \o formattedSections(Tail(sections), parts)

formatQueryDescription(parts, opts) ==
  IF ~parts.present
  THEN ""
  ELSE join(flattenList(joinList(formattedSections(opts.sections, parts),
                                 S(", "))),
            "")

(***************************************************************************)
(* The inputs of the drill state machine: three columns of one table, the  *)
(* questions a behaviour starts from, and the arguments of each call.      *)
(***************************************************************************)
CreatedAt(unit) == Column(1, "date", unit, 0)

\* a numeric column shown in bins of width 10
Total == Column(2, "number", "", 10)

Status == Column(3, "category", "", 0)

NoColumn == Column(0, "", "", 0)

\* the two coordinate columns of a map
Latitude == Column(5, "number", "", 0)

Longitude == Column(6, "number", "", 0)

\* the bounds of a region selected on a map
Bounds(north, west, south, east) ==
  [north |-> north, west |-> west, south |-> south, east |-> east]

Europe == Bounds(50, -10, 40, 5)

NoClause == Filter("", NoField, <<>>)

\* a question whose query holds every clause group: two breakouts and two
\* filters on one dimension, a segment, a sort and a limit
BusyQuery ==
  [aggregation |-> <<Agg("sum", FieldRef(2, ""))>>,
   breakout    |-> <<FieldRef(1, "day"), FieldRef(3, ""), FieldRef(1, "month")>>,
   filter      |-> <<Segment(1), Filter(">", FieldRef(2, ""), <<Num(5)>>),
                     Filter("<", FieldRef(2, ""), <<Num(9)>>)>>,
   orderBy     |-> <<[direction |-> "desc", field |-> FieldRef(1, "day")]>>,
   limit       |-> <<10>>]

\* a count by day with an earlier date filter
DailyQuery ==
  [aggregation |-> <<Agg("count", NoField)>>,
   breakout    |-> <<FieldRef(1, "day")>>,
   filter      |-> <<Filter("=", FieldRef(1, "month"),
                            <<DateStr(MakeTime(2021, 3, 1, 0, 0, 0))>>)>>,
   orderBy     |-> <<>>,
   limit       |-> <<>>]

StartQuestions ==
  {Structured(EmptyQuery), Structured(BusyQuery), Structured(DailyQuery),
   Native}

\* the instants a range selection is made of
Morning == MakeTime(2021, 3, 10, 8, 15, 30)

Selections ==
  {<<Morning, Morning>>,
   <<Morning, MakeTime(2021, 3, 10, 8, 15, 50)>>,
   <<Morning, MakeTime(2021, 3, 10, 8, 40, 0)>>,
   <<Morning, MakeTime(2021, 3, 10, 21, 5, 0)>>,
   <<Morning, MakeTime(2021, 3, 12, 12, 0, 0)>>,
   <<Morning, MakeTime(2021, 3, 29, 0, 0, 0)>>,
   <<Morning, MakeTime(2021, 6, 20, 17, 30, 0)>>,
   <<Morning, MakeTime(2022, 11, 5, 6, 0, 1)>>,
   <<Morning, MakeTime(2027, 2, 1, 0, 0, 0)>>,
   <<MakeTime(2020, 12, 31, 23, 59, 59), MakeTime(2021, 1, 1, 0, 0, 1)>>,
   <<MakeTime(2020, 1, 31, 10, 0, 0), MakeTime(2020, 2, 29, 10, 0, 0)>>,
   <<MakeTime(2019, 12, 29, 0, 0, 0), MakeTime(2020, 1, 25, 23, 59, 59)>>}

\* the ranges the drill state machine selects
FewSelections ==
  {<<Morning, MakeTime(2021, 3, 10, 21, 5, 0)>>,
   <<Morning, MakeTime(2021, 3, 29, 0, 0, 0)>>}

Call(op, col, start, end, clause, breakouts, dimensions) ==
  [op |-> op, before |-> question, defined |-> FALSE, threw |-> FALSE,
   column |-> col,
   start |-> start, end |-> end, clause |-> clause, breakouts |-> breakouts,
   dimensions |-> dimensions, prevOp |-> last.op, prevClause |-> last.clause,
   prevBefore |-> last.before]

NoCall(qn) ==
  [op |-> "init", before |-> qn, defined |-> FALSE, threw |-> FALSE,
   column |-> NoColumn,
   start |-> 0, end |-> 0,
   clause |-> NoClause, breakouts |-> <<>>, dimensions |-> <<>>,
   prevOp |-> "", prevClause |-> NoClause, prevBefore |-> qn]

\* no call of updateDateTimeFilter is in progress
NoLoop == [unit |-> "", start |-> 0, end |-> 0, span |-> <<>>]

\* a drill action was called on the question and returned ret: the caller
\* keeps its question when nothing is returned
Returned(call, ret) ==
  /\ nsteps < MaxSteps
  /\ nsteps' = nsteps + 1
  /\ question' = IF ret.defined THEN ret.question ELSE question
  /\ last' = [call EXCEPT !.defined = ret.defined]
  /\ UNCHANGED <<tableMetadata, options, description, loop, pc>>

\* a structured-query utility was called on the question's query
Updated(call, q) ==
  /\ question.kind = "structured"
  /\ Returned(call, Return([question EXCEPT !.query = q]))

(***************************************************************************)
(* The drill state machine: a question, and the calls made on it.          *)
(***************************************************************************)
\* no table metadata (null)
NoMetadata ==
  [present |-> FALSE, display_name |-> "", fields |-> <<>>, metrics |-> <<>>,
   segments |-> <<>>]

DefaultSections ==
  <<"table", "aggregation", "breakout", "filter", "order-by", "limit">>

Init ==
  /\ question \in StartQuestions
  /\ last = NoCall(question)
  /\ nsteps = 0
  /\ tableMetadata = NoMetadata
  /\ options = [sections |-> DefaultSections]
  /\ description = ""
  /\ loop = NoLoop
  /\ pc = "called"

CallAggregate ==
  \E a \in {Agg("count", NoField), Agg("sum", FieldRef(2, ""))} :
    Returned(Call("aggregate", NoColumn, 0, 0, NoClause, <<>>, <<>>),
             aggregate(question, a))

CallBreakout ==
  \E ref \in {FieldRef(3, ""), FieldRef(1, "month")} :
    Returned(Call("breakout", NoColumn, 0, 0, NoClause, <<ref>>, <<>>),
             breakout(question, ref))

CallFilter ==
  \E a \in {<<">", Total, 5>>, <<"=", Status, 1>>} :
    Returned(Call("filter", a[2], 0, 0,
                  Filter(a[1], fieldRefForColumn(a[2]), <<Num(a[3])>>),
                  <<>>, <<>>),
             filter(question, a[1], a[2], a[3]))

CallPivot ==
  \E breakouts \in {<<>>, <<FieldRef(3, "")>>,
                    <<FieldRef(2, ""), FieldRef(1, "year")>>},
     dimensions \in {<<>>,
                     <<[value |-> Val(Morning), column |-> CreatedAt("day")]>>,
                     <<[value |-> Val(20), column |-> Total]>>,
                     <<[value |-> Null, column |-> Status],
                       [value |-> Val(Morning), column |-> CreatedAt("month")]>>} :
    Returned(Call("pivot", NoColumn, 0, 0, NoClause, breakouts, dimensions),
             pivot(question, breakouts, dimensions))

CallDistribution ==
  \E col \in {CreatedAt("day"), Total, Status} :
    Returned(Call("distribution", col, 0, 0, NoClause, <<>>, <<>>),
             distribution(question, col))

CallDrillFilter ==
  \E a \in {<<Val(Morning), CreatedAt("day")>>, <<Null, CreatedAt("day")>>,
            <<Val(20), Total>>, <<Val(1), Status>>, <<Null, Status>>} :
    Updated(Call("drillFilter", a[2], 0, 0, NoClause, <<>>,
                 <<[value |-> a[1], column |-> a[2]]>>),
            drillFilter(question.query, a[1], a[2]))

CallAddOrUpdateFilter ==
  \E f \in {Filter(">", FieldRef(2, ""), <<Num(5)>>),
            Filter("<", FieldRef(2, ""), <<Num(9)>>),
            Filter("=", FieldRef(3, ""), <<Num(1)>>)} :
    Updated(Call("addOrUpdateFilter", NoColumn, 0, 0, f, <<>>, <<>>),
            addOrUpdateFilter(question.query, f))

CallAddOrUpdateBreakout ==
  \E ref \in {FieldRef(1, "week"), FieldRef(2, "")} :
    Updated(Call("addOrUpdateBreakout", NoColumn, 0, 0, NoClause, <<ref>>,
                 <<>>),
            addOrUpdateBreakout(question.query, ref))

UpdateDateTimeFilterOn(cols, sels) ==
  \E col \in cols, sel \in sels :
    Updated(Call("updateDateTimeFilter", col, sel[1], sel[2], NoClause,
                 <<>>, <<>>),
            updateDateTimeFilter(question.query, col, sel[1], sel[2]))

CallUpdateDateTimeFilter ==
  UpdateDateTimeFilterOn({CreatedAt("day"), CreatedAt("")}, FewSelections)

CallUpdateLatLonFilter ==
  \E b \in {Europe} :
    Updated(Call("updateLatLonFilter", Latitude, 0, 0, NoClause, <<>>,
                 <<>>),
            updateLatLonFilter(question.query, Latitude, Longitude, b))

CallUpdateNumericFilter ==
  \E a \in {<<Total, 10, 30>>} :
    Updated(Call("updateNumericFilter", a[1], a[2], a[3], NoClause, <<>>,
                 <<>>),
            updateNumericFilter(question.query, a[1], a[2], a[3]))

Next ==
  \/ CallAggregate
  \/ CallBreakout
  \/ CallFilter
  \/ CallPivot
  \/ CallDistribution
  \/ CallDrillFilter
  \/ CallAddOrUpdateFilter
  \/ CallAddOrUpdateBreakout
  \/ CallUpdateDateTimeFilter
  \/ CallUpdateLatLonFilter
  \/ CallUpdateNumericFilter

Spec == Init /\ [][Next]_vars

(***************************************************************************)
(* updateDateTimeFilter as a function of its inputs: one call, on a column *)
(* shown at any unit of the ladder (or at none), over each selection.      *)
(***************************************************************************)
DateColumns == {CreatedAt(UNITS[i]) : i \in 1..Len(UNITS)} \cup {CreatedAt("")}

DateInit ==
  /\ Init
  /\ question.kind = "structured"

CallUpdateDateTimeFilterOnce ==
  /\ last.op = "init"
  /\ UpdateDateTimeFilterOn(DateColumns, Selections)

DateNext == CallUpdateDateTimeFilterOnce

DateSpec == DateInit /\ [][DateNext]_vars

(***************************************************************************)
(* The loop specification: updateDateTimeFilter was called on a column      *)
(* that has a unit, and its while loop runs one iteration at a time.       *)
(* loop holds the function's variables unit, start and end, and the value  *)
(* of end.diff(start, u) for each unit u the loop can test; pc is "while"  *)
(* at the loop's test and "after" once the loop is left.                   *)
(***************************************************************************)
\* the units of a column: those of the ladder, and two that are not on it
ColumnUnits == {UNITS[i] : i \in 1..Len(UNITS)} \cup {"second", "day-of-week"}

LoopColumns == {CreatedAt(u) : u \in ColumnUnits}

\* the ranges selected on a column: for a unit moment does not know, those
\* whose length in milliseconds is an integer of the model checker
SelectionsOn(col) ==
  IF col.unit \in ColumnUnits \ {"day-of-week"}
  THEN Selections
  ELSE {sel \in Selections : sel[2] - sel[1] < (2 ^ 30) \div 500}

\* the units the loop can reach from a column's unit
UnitsFrom(unit) == {unit} \cup {UNITS[i] : i \in 1..Len(UNITS)}

\* the function's variables at the first test of its loop: unit = column.unit,
\* start and end are clamped to it; span[u] is end.diff(start, u)
EnteredLoop(col, start, end) ==
  [unit |-> col.unit, start |-> start, end |-> end,
   span |-> [u \in UnitsFrom(col.unit) |->
              diff(end, start, u, endOfMillis(col.unit))]]

\* the function has been entered with a column and a range
LoopInit ==
  /\ question \in {Structured(EmptyQuery), Structured(DailyQuery)}
  /\ \E col \in LoopColumns : \E sel \in SelectionsOn(col) :
       /\ last = [NoCall(question) EXCEPT !.op = "updateDateTimeFilter",
                                           !.column = col,
                                           !.start = sel[1], !.end = sel[2]]
       /\ loop = EnteredLoop(col, clampStart(sel[1], col.unit),
                             clampEnd(sel[2], col.unit))
  /\ pc = "while"
  /\ nsteps = 0
  /\ tableMetadata = NoMetadata
  /\ options = [sections |-> DefaultSections]
  /\ description = ""

\* the test of the while loop, intervals being end.diff(start, unit)
loopTest(unit, intervals) ==
  unit # getNextUnit(unit) /\ intervals < MIN_INTERVALS

\* one iteration of the while loop
IterateLoop ==
  /\ pc = "while"
  /\ loopTest(loop.unit, loop.span[loop.unit])
  /\ loop' = [loop EXCEPT !.unit = getNextUnit(@)]
  /\ UNCHANGED <<question, last, nsteps, tableMetadata, options, description,
                 pc>>

\* the test fails and the loop is left with the unit chosen
LeaveLoop ==
  /\ pc = "while"
  /\ ~loopTest(loop.unit, loop.span[loop.unit])
  /\ pc' = "after"
  /\ UNCHANGED <<question, last, nsteps, tableMetadata, options, description,
                 loop>>

LoopNext == IterateLoop \/ LeaveLoop

\* a call that has begun runs on: JavaScript runs a function to completion
LoopSpec == LoopInit /\ [][LoopNext]_vars /\ WF_vars(LoopNext)

(***************************************************************************)
(* The filter specification: a structured query with no filters, and up to *)
(* MaxCalls calls of the structured-query utilities on it, in any order,   *)
(* on date, numeric and category columns.                                  *)
(***************************************************************************)
\* a count, limited, with no filters and no breakouts
AggregatedQuery ==
  [EmptyQuery EXCEPT !.aggregation = <<Agg("count", NoField)>>,
                     !.limit = <<10>>]

\* a query with no filters that is grouped twice by one column
GroupedQuery == [BusyQuery EXCEPT !.filter = <<>>]

FilterInit ==
  /\ question \in {Structured(EmptyQuery), Structured(AggregatedQuery),
                   Structured(GroupedQuery)}
  /\ last = NoCall(question)
  /\ nsteps = 0
  /\ tableMetadata = NoMetadata
  /\ options = [sections |-> DefaultSections]
  /\ description = ""
  /\ loop = NoLoop
  /\ pc = "called"

\* a structured-query utility was called on the query and returned q;
\* last.prevBefore stays the question the calls started from
Applied(op, col, clause, q) ==
  /\ nsteps < MaxCalls
  /\ nsteps' = nsteps + 1
  /\ question' = [question EXCEPT !.query = q]
  /\ last' = [NoCall(question) EXCEPT !.op = op, !.column = col,
                                      !.clause = clause, !.defined = TRUE,
                                      !.prevBefore = last.prevBefore]
  /\ UNCHANGED <<tableMetadata, options, description, loop, pc>>

ApplyDrillFilter ==
  \E a \in {<<Val(Morning), CreatedAt("day")>>, <<Null, CreatedAt("month")>>,
            <<Val(20), Total>>, <<Val(1), Status>>, <<Null, Status>>} :
    Applied("drillFilter", a[2], NoClause,
            drillFilter(question.query, a[1], a[2]))

ApplyAddOrUpdateFilter ==
  \E f \in {Filter(">", FieldRef(2, ""), <<Num(5)>>),
            Filter("=", FieldRef(3, ""), <<Num(1)>>),
            Filter("is-null", FieldRef(1, "week"), <<>>),
            Filter(">", FieldRef(5, ""), <<Num(45)>>),
            Segment(1)} :
    Applied("addOrUpdateFilter", NoColumn, f,
            addOrUpdateFilter(question.query, f))

ApplyAddOrUpdateBreakout ==
  \E ref \in {FieldRef(1, "week"), FieldRef(1, "month"), FieldRef(2, ""),
              FieldRef(3, "")} :
    Applied("addOrUpdateBreakout", NoColumn, Filter("", ref, <<>>),
            addOrUpdateBreakout(question.query, ref))

ApplyUpdateDateTimeFilter ==
  \E col \in {CreatedAt("day"), CreatedAt("")}, sel \in FewSelections :
    Applied("updateDateTimeFilter", col, NoClause,
            updateDateTimeFilter(question.query, col, sel[1], sel[2]))

ApplyUpdateLatLonFilter ==
  \E b \in {Europe, Bounds(1, 0, 0, 1)} :
    Applied("updateLatLonFilter", Latitude, NoClause,
            updateLatLonFilter(question.query, Latitude, Longitude, b))

ApplyUpdateNumericFilter ==
  \E a \in {<<Total, 10, 30>>, <<Total, 0, 5>>} :
    Applied("updateNumericFilter", a[1], NoClause,
            updateNumericFilter(question.query, a[1], a[2], a[3]))

FilterNext ==
  \/ ApplyDrillFilter
  \/ ApplyAddOrUpdateFilter
  \/ ApplyAddOrUpdateBreakout
  \/ ApplyUpdateDateTimeFilter
  \/ ApplyUpdateLatLonFilter
  \/ ApplyUpdateNumericFilter

FilterSpec == FilterInit /\ [][FilterNext]_vars

(***************************************************************************)
(* The description specification: generateQueryDescription is called once  *)
(* on a query of one table, with a list of sections.                       *)
(***************************************************************************)
\* the table of the descriptions: four fields, one metric, one segment
Orders ==
  [present |-> TRUE, display_name |-> "Orders",
   fields |-> <<[id |-> 1, display_name |-> "Created At"],
                [id |-> 2, display_name |-> "Total"],
                [id |-> 3, display_name |-> "Status"],
                [id |-> 4, display_name |-> "Product ID"]>>,
   metrics |-> <<[id |-> 1, name |-> "Revenue"]>>,
   segments |-> <<[id |-> 1, name |-> "Big Orders"]>>]

\* the id no field, metric or segment of the table has
UnknownId == Len(Orders.fields) + 5

\* sequences of at most n elements of a set
RECURSIVE SeqsUpTo(_, _)
SeqsUpTo(X, n) ==
  IF n = 0
  THEN {<<>>}
  ELSE SeqsUpTo(X, n - 1) \cup {Append(s, x) : s \in SeqsUpTo(X, n - 1), x \in X}

\* sequences without repetition of elements of a set
RECURSIVE OrderedSubsets(_)
OrderedSubsets(X) ==
  {<<>>} \cup UNION {{<<x>> \o s : s \in OrderedSubsets(X \ {x})} : x \in X}

AggregationClauses ==
  {Agg("count", NoField), Agg("sum", FieldRef(2, "")),
   Agg("avg", FieldRef(UnknownId, "month")), Metric(UnknownId),
   Named(Agg("sum", FieldRef(2, "")), "Net")}

FilterLists ==
  {<<>>,
   <<Filter("=", FieldRef(3, ""), <<Num(5)>>)>>,
   <<Segment(1), Segment(UnknownId)>>,
   <<Filter(">", FieldRef(UnknownId, "day"), <<Num(1)>>),
     Filter("or", NoField,
            <<Segment(1), Filter("<", FieldRef(1, "month"), <<Num(7)>>),
              Filter("=", FieldRef(4, ""), <<Num(2)>>)>>)>>}

\* the breakouts, sort and limit that go with the aggregation lists
Tails ==
  {[breakout |-> <<>>, orderBy |-> <<>>, limit |-> <<>>],
   [breakout |-> <<FieldRef(1, "month"), FieldRef(UnknownId, "week")>>,
    orderBy  |-> <<[direction |-> "desc", field |-> AggregateRef(0)],
                   [direction |-> "asc", field |-> FieldRef(UnknownId, "day")]>>,
    limit    |-> <<1>>],
   [breakout |-> <<FieldRef(4, "")>>,
    orderBy  |-> <<[direction |-> "asc", field |-> FieldRef(2, "")]>>,
    limit    |-> <<0>>]}

\* queries with every aggregation list, described in full or by one section
RichInputs ==
  {[query |-> [aggregation |-> a, breakout |-> t.breakout, filter |-> f,
               orderBy |-> t.orderBy, limit |-> t.limit],
    sections |-> s] :
     a \in SeqsUpTo(AggregationClauses, MaxAggs), f \in FilterLists,
     t \in Tails, s \in {DefaultSections, <<"aggregation">>, <<"limit">>}}

\* queries whose clause groups are each empty or not, described by every
\* list of sections
ShapeInputs ==
  {[query |-> [aggregation |-> a, breakout |-> b, filter |-> f,
               orderBy |-> o, limit |-> l],
    sections |-> s] :
     a \in {<<>>, <<Agg("count", NoField)>>,
            <<Metric(1), Named(Agg("max", FieldRef(2, "")), "")>>},
     b \in {<<>>, <<FieldRef(1, "")>>},
     f \in {<<>>, <<Filter("=", FieldRef(3, ""), <<Num(5)>>)>>},
     o \in {<<>>, <<[direction |-> "asc", field |-> FieldRef(1, "")]>>},
     l \in {<<>>, <<0>>, <<10>>},
     s \in OrderedSubsets({DefaultSections[i] : i \in 1..Len(DefaultSections)})}

\* the query of the end-to-end example
E2EQuery ==
  [aggregation |-> <<Agg("count", NoField)>>,
   breakout    |-> <<FieldRef(1, "")>>,
   filter      |-> <<Filter("=", FieldRef(3, ""), <<Num(5)>>)>>,
   orderBy     |-> <<>>,
   limit       |-> <<10>>]

DescInit ==
  /\ tableMetadata = Orders
  /\ \E d \in RichInputs \cup ShapeInputs :
       /\ question = Structured(d.query)
       /\ options = [sections |-> d.sections]
  /\ last = NoCall(question)
  /\ nsteps = 0
  /\ description = ""
  /\ loop = NoLoop
  /\ pc = "called"

\* a call that throws assigns no description
CallGenerateQueryDescription ==
  /\ last.op = "init"
  /\ description'
       = IF generateQueryDescriptionThrows(tableMetadata, question.query, options)
         THEN description
         ELSE generateQueryDescription(tableMetadata, question.query, options)
  /\ last' = [last EXCEPT
                !.op = "generateQueryDescription",
                !.threw = generateQueryDescriptionThrows(
                            tableMetadata, question.query, options)]
  /\ UNCHANGED <<question, nsteps, tableMetadata, options, loop, pc>>

\* the display string of a field reference
FieldText(md, ref) == join(flattenList(<<getFieldName(md, ref)>>), "")

\* the payload entry of an aggregation clause: a named clause by its name,
\* a metric by its name, the others by their operator and field name
PayloadAggregation(md, a) ==
  IF hasOptions(a)
  THEN IF isNamed(a)
       THEN [type |-> "aggregation", arg |-> a.name]
       ELSE [type |-> a.inner.op, arg |-> FieldText(md, a.inner.field)]
  ELSE IF a.op = "metric"
       THEN [type |-> "metric",
             arg |-> metricNameAt(md, findWhere(md.metrics, a.id))]
       ELSE IF a.op \in {"rows", "count", "cum-count"}
            THEN [type |-> a.op, arg |-> ""]
            ELSE [type |-> a.op, arg |-> FieldText(md, a.field)]

PayloadFilter(md, f) ==
  IF f.op = "segment"
  THEN [segment |-> S(segmentNameAt(md, findWhere(md.segments, f.args[1].num))),
        field |-> Undef]
  ELSE [segment |-> Undef, field |-> S(FieldText(md, f.field))]

PayloadOrderBy(md, q, o) ==
  [field |-> IF isAggregateField(o.field)
             THEN toString(getAggregationDescription(md, q))
             ELSE FieldText(md, o.field),
   direction |-> o.direction]

\* the payload of a query: the display strings its table, aggregations,
\* breakouts, filters, sorts and limit resolve to; null for a null query
PayloadOf(md, q) ==
  IF isNull(q)
  THEN NoParts
  ELSE [present |-> TRUE,
        table |-> md.display_name,
        aggregation |-> [i \in 1..Len(q.aggregation) |->
                           PayloadAggregation(md, q.aggregation[i])],
        breakout |-> [i \in 1..Len(q.breakout) |-> FieldText(md, q.breakout[i])],
        filter |-> [i \in 1..Len(q.filter) |-> PayloadFilter(md, q.filter[i])],
        orderBy |-> [i \in 1..Len(q.orderBy) |->
                       PayloadOrderBy(md, q, q.orderBy[i])],
        limit |-> q.limit]

\* whether the payload shape holds the filters: they are not nested
FlatFilters(q) ==
  IF isNull(q)
  THEN TRUE
  ELSE \A i \in 1..Len(q.filter) : q.filter[i].op \notin {"and", "or"}

\* formatQueryDescription is called on the payload of the question's query
CallFormatQueryDescription ==
  /\ last.op = "init"
  /\ FlatFilters(question.query)
  /\ description'
       = formatQueryDescription(PayloadOf(tableMetadata, question.query), options)
  /\ last' = [last EXCEPT !.op = "formatQueryDescription"]
  /\ UNCHANGED <<question, nsteps, tableMetadata, options, loop, pc>>

DescNext == CallGenerateQueryDescription \/ CallFormatQueryDescription

DescSpec == DescInit /\ [][DescNext]_vars

(***************************************************************************)
(* The malformed-input specification: a description is asked for without   *)
(* table metadata, or of a null query, under every list of sections.       *)
(***************************************************************************)
\* the lists of sections under which the outcome for a null query does not
\* depend on what QUERY.getAggregations and QUERY.getFilters do with null
DecidedSections ==
  {s \in OrderedSubsets({DefaultSections[i] : i \in 1..Len(DefaultSections)}) :
     \/ \E i \in 1..Len(s) : s[i] \in {"breakout", "order-by", "limit"}
     \/ \A i \in 1..Len(s) : s[i] = "table"}

MalformedInit ==
  /\ \E d \in {<<NoMetadata, E2EQuery>>, <<NoMetadata, NullQuery>>,
                <<Orders, NullQuery>>, <<Orders, E2EQuery>>} :
       /\ tableMetadata = d[1]
       /\ question = Structured(d[2])
  /\ options \in {[sections |-> s] : s \in DecidedSections}
  /\ last = NoCall(question)
  /\ nsteps = 0
  /\ description = ""
  /\ loop = NoLoop
  /\ pc = "called"

MalformedSpec == MalformedInit /\ [][DescNext]_vars

(***************************************************************************)
(* Claims about the drill utilities.                                       *)
(***************************************************************************)
UnitIndex(unit) == indexOf(UNITS, unit)

\* the filters / breakouts of q on the base dimension of field id
FiltersOn(q, id) ==
  {i \in 1..Len(q.filter) : Filter_dimension(q.filter[i]).id = id}

BreakoutsOn(q, id) == {i \in 1..Len(q.breakout) : q.breakout[i].id = id}

\* the last call was updateDateTimeFilter on a column with a temporal unit
DateCall ==
  last.op = "updateDateTimeFilter" /\ last.column.unit # ""

\* the selected range clamped to the column's unit: from the start of the
\* bucket after the one start lies in, to the end of the bucket end lies in
ClampedStart == add(startOf(last.start, last.column.unit), 1, last.column.unit)

ClampedEnd == endOf(last.end, last.column.unit)

\* the bounds of the emitted filter: starts of buckets of the column's unit
RoundedStart == ClampedStart

RoundedEnd == startOf(last.end, last.column.unit)

Degenerate == RoundedStart > RoundedEnd

\* the unit of the breakout updateDateTimeFilter set on the column
BreakoutUnit ==
  question.query.breakout[Least(BreakoutsOn(question.query, last.column.id))].unit

\* the intervals of a unit the clamped range spans
Intervals(unit) ==
  diff(ClampedEnd, ClampedStart, unit, endOfMillis(last.column.unit))

\* the claim's rule: step to the next-coarser unit while one exists and the
\* range spans fewer than MIN_INTERVALS intervals of the current unit
RECURSIVE StepCoarser(_)
StepCoarser(unit) ==
  IF UnitIndex(unit) < Len(UNITS) - 1 /\ Intervals(unit) < MIN_INTERVALS
  THEN StepCoarser(UNITS[UnitIndex(unit) + 2])
  ELSE unit

\* C1 as stated: the breakout unit is reached from the column's unit by
\* stepping to coarser units of the ladder, and is never finer than it
C1_BreakoutUnitSteppedCoarser ==
  DateCall =>
    /\ BreakoutsOn(question.query, last.column.id) # {}
    /\ BreakoutUnit = StepCoarser(last.column.unit)
    /\ UnitIndex(BreakoutUnit) >= UnitIndex(last.column.unit)

\* C1 amended: the breakout unit is the coarsest unit of the ladder, not
\* coarser than the column's unit u, that is "minute" or spans at least
\* MIN_INTERVALS intervals of the clamped range, every unit between it and u
\* (u included) spanning fewer: the loop steps to finer units, never coarser
C1_BreakoutUnitSteppedFiner ==
  DateCall =>
    /\ BreakoutsOn(question.query, last.column.id) # {}
    /\ UnitIndex(BreakoutUnit) >= 0
    /\ UnitIndex(BreakoutUnit) <= UnitIndex(last.column.unit)
    /\ BreakoutUnit = "minute" \/ Intervals(BreakoutUnit) >= MIN_INTERVALS
    /\ \A i \in 1..Len(UNITS) :
         (UnitIndex(BreakoutUnit) < i - 1 /\ i - 1 <= UnitIndex(last.column.unit))
           => Intervals(UNITS[i]) < MIN_INTERVALS

\* a range of two days on a "day" column: the breakout goes to "hour"
C1_Witness ==
  /\ DateCall
  /\ last.column.unit = "day"
  /\ Intervals("day") = 1
  /\ BreakoutUnit = "hour"

\* C2 as stated: a degenerate selection returns the input query unmodified
C2_DegenerateQueryUnmodified ==
  (DateCall /\ Degenerate) => question.query = last.before.query

\* C2, what the code does instead: a degenerate selection adds no filter and
\* leaves filters, aggregations, sort and limit as they were, but the
\* breakouts are the input's with the first breakout on the column's
\* dimension replaced by (or, when there is none, a breakout appended for)
\* the field by minute: no unit spans MIN_INTERVALS of an empty range
C2_DegenerateOnlyBreakoutUpdated ==
  (DateCall /\ Degenerate) =>
    LET old  == last.before.query
        new  == question.query
        same == BreakoutsOn(old, last.column.id)
        at   == IF same # {} THEN Least(same) ELSE Len(old.breakout) + 1
    IN  /\ new.filter = old.filter
        /\ new.aggregation = old.aggregation
        /\ new.orderBy = old.orderBy
        /\ new.limit = old.limit
        /\ Len(new.breakout) = Max(Len(old.breakout), at)
        /\ new.breakout[at].id = last.column.id
        /\ new.breakout[at].unit = "minute"
        /\ \A i \in 1..Len(old.breakout) :
             i # at => new.breakout[i] = old.breakout[i]

\* a selection inside one day of a "day" column: no filter is added, and the
\* returned query has a breakout by minute the input had not
C2_Witness ==
  /\ DateCall
  /\ Degenerate
  /\ last.column.unit = "day"
  /\ question.query.filter = last.before.query.filter
  /\ question.query.breakout # last.before.query.breakout
  /\ BreakoutUnit = "minute"

\* the filter updateDateTimeFilter set on the column
DateFilter ==
  question.query.filter[Least(FiltersOn(question.query, last.column.id))]

\* C10: on a non-degenerate selection the emitted filter is on the field at
\* the column's unit u, its bounds are formatted starts of u-buckets (the
\* bucket after start's and the bucket of end), "=" when they are one bucket
\* and "between" with start before end otherwise
C10_FilterAlignedToColumnUnit ==
  (DateCall /\ ~Degenerate) =>
    /\ FiltersOn(question.query, last.column.id) # {}
    /\ DateFilter.field = FieldRef(last.column.id, last.column.unit)
    /\ \A i \in 1..Len(DateFilter.args) :
         /\ DateFilter.args[i].type = "string"
         /\ DateFilter.args[i].str = format(DateFilter.args[i].num)
         /\ startOf(DateFilter.args[i].num, last.column.unit)
              = DateFilter.args[i].num
    /\ DateFilter.args[1].num = RoundedStart
    /\ DateFilter.args[Len(DateFilter.args)].num = RoundedEnd
    /\ IF RoundedStart = RoundedEnd
       THEN DateFilter.op = "=" /\ Len(DateFilter.args) = 1
       ELSE /\ DateFilter.op = "between"
            /\ Len(DateFilter.args) = 2
            /\ DateFilter.args[1].num < DateFilter.args[2].num

\* a "between" on the field by day while the breakout went to "hour"
C10_Witness ==
  /\ DateCall
  /\ ~Degenerate
  /\ last.column.unit = "day"
  /\ FiltersOn(question.query, last.column.id) # {}
  /\ DateFilter.op = "between"
  /\ DateFilter.field.unit = "day"
  /\ BreakoutUnit = "hour"

\* the last call was distribution on a date column of a structured query
DistributionCall ==
  last.op = "distribution" /\ last.defined /\ isDate(last.column)

\* C3 as stated: count by month, and no filter, no sort and no limit
C3_DistributionNoFilter ==
  DistributionCall =>
    /\ question.query.aggregation = <<Agg("count", NoField)>>
    /\ question.query.breakout = <<FieldRef(last.column.id, "month")>>
    /\ question.query.filter = <<>>
    /\ question.query.orderBy = <<>>
    /\ question.query.limit = <<>>

\* C3 amended: count by month, no sort and no limit; the filters are kept
C3_DistributionKeepsFilter ==
  DistributionCall =>
    /\ question.query.aggregation = <<Agg("count", NoField)>>
    /\ question.query.breakout = <<FieldRef(last.column.id, "month")>>
    /\ question.query.filter = last.before.query.filter
    /\ question.query.orderBy = <<>>
    /\ question.query.limit = <<>>

\* distribution of a query that held filters, a sort and a limit
C3_Witness ==
  /\ DistributionCall
  /\ last.before.query.filter # <<>>
  /\ last.before.query.orderBy # <<>>
  /\ last.before.query.limit # <<>>
  /\ last.before.query.aggregation # <<Agg("count", NoField)>>

\* addOrUpdateFilter was called twice in a row with filters on one dimension
TwiceOnOneDimension ==
  /\ last.op = "addOrUpdateFilter"
  /\ last.prevOp = "addOrUpdateFilter"
  /\ isSameBaseDimension(last.prevClause.field, last.clause.field)

\* C4 as stated: after the two calls exactly one filter is on the dimension,
\* and it is the second call's
C4_TwiceLeavesOneFilter ==
  TwiceOnOneDimension =>
    /\ Cardinality(FiltersOn(question.query, last.clause.field.id)) = 1
    /\ \A i \in FiltersOn(question.query, last.clause.field.id) :
         question.query.filter[i] = last.clause

\* C4 amended: the first filter on the dimension is the second call's, and
\* the query holds as many filters on the dimension as the starting query
\* did, one if it held none: exactly one when it held at most one
C4_TwiceReplacesFirstFilter ==
  TwiceOnOneDimension =>
    LET d  == last.clause.field.id
        on == FiltersOn(question.query, d)
    IN  /\ on # {}
        /\ question.query.filter[Least(on)] = last.clause
        /\ Cardinality(on)
             = Max(1, Cardinality(FiltersOn(last.prevBefore.query, d)))
        /\ Len(question.query.filter)
             = Len(last.prevBefore.query.filter)
                 + (IF FiltersOn(last.prevBefore.query, d) = {} THEN 1 ELSE 0)

\* two different filters on a dimension the starting query had no filter on
C4_Witness ==
  /\ TwiceOnOneDimension
  /\ last.prevClause # last.clause
  /\ FiltersOn(last.prevBefore.query, last.clause.field.id) = {}
  /\ Cardinality(FiltersOn(question.query, last.clause.field.id)) = 1

\* C9: on a question whose query is not structured, aggregate, breakout,
\* filter, pivot and distribution return undefined and change nothing
C9_NotStructuredIsNoOp ==
  (/\ last.op \in {"aggregate", "breakout", "filter", "pivot", "distribution"}
   /\ last.before.kind # "structured")
    => ~last.defined /\ question = last.before

\* distribution, called on a native question as the last of MaxSteps calls,
\* returned nothing
C9_Witness ==
  /\ last.op = "distribution"
  /\ last.before.kind = "native"
  /\ ~last.defined
  /\ nsteps = MaxSteps

\* C15: addOrUpdateFilter replaces the first filter on the base dimension of
\* the new filter at its position, the length of the list unchanged, or,
\* when there is none, appends the new filter; every other filter and the
\* aggregations, breakouts, sort and limit are unchanged.
C15_AddOrUpdateFilterChangesOnePosition ==
  last.op = "addOrUpdateFilter" =>
    LET old == last.before.query
        new == question.query
        on  == FiltersOn(old, last.clause.field.id)
    IN  /\ IF on # {}
           THEN /\ Len(new.filter) = Len(old.filter)
                /\ new.filter[Least(on)] = last.clause
                /\ \A i \in 1..Len(old.filter) :
                     i # Least(on) => new.filter[i] = old.filter[i]
           ELSE new.filter = Append(old.filter, last.clause)
        /\ new.aggregation = old.aggregation
        /\ new.breakout = old.breakout
        /\ new.orderBy = old.orderBy
        /\ new.limit = old.limit

\* a filter replaced the first of two filters on its dimension, in a query
\* that holds aggregations, breakouts, a sort and a limit
C15_Witness ==
  /\ last.op = "addOrUpdateFilter"
  /\ Cardinality(FiltersOn(last.before.query, last.clause.field.id)) = 2
  /\ last.before.query.filter[2] # last.clause
  /\ question.query.filter[2] = last.clause
  /\ question.query.orderBy # <<>>
  /\ question.query.limit # <<>>

\* the last call was pivot on a structured query
PivotCall == last.op = "pivot" /\ last.defined

\* the ids of the columns of the dimension drills of the last call
DrilledIds == {last.dimensions[i].column.id : i \in 1..Len(last.dimensions)}

NotDrilled(b) == b.id \notin DrilledIds

\* C11: after pivot every dimension drill has a drill filter on its
\* dimension ("is-null" for a null value, "=" or "between" otherwise), the
\* breakouts are those of the input that are on no drilled dimension, in
\* their order, followed by the new breakouts in their order.
C11_PivotFiltersDrillsAndReplacesBreakouts ==
  PivotCall =>
    /\ \A k \in 1..Len(last.dimensions) :
         \E i \in FiltersOn(question.query, last.dimensions[k].column.id) :
           /\ question.query.filter[i].op \in {"=", "between", "is-null"}
           /\ (question.query.filter[i].op = "is-null")
                = (\A j \in k..Len(last.dimensions) :
                     last.dimensions[j].column.id
                       = last.dimensions[k].column.id
                       => last.dimensions[j].value.null)
    /\ question.query.breakout
         = SelectSeq(last.before.query.breakout, NotDrilled) \o last.breakouts

\* pivot with a drill on the created-at dimension of a query that had two
\* consecutive breakouts and one more breakout on it, with new breakouts
C11_Witness ==
  /\ PivotCall
  /\ 1 \in DrilledIds
  /\ \E i \in 1..(Len(last.before.query.breakout) - 1) :
       /\ last.before.query.breakout[i].id = 1
       /\ last.before.query.breakout[i + 1].id = 1
  /\ Cardinality(BreakoutsOn(last.before.query, 1)) >= 3
  /\ Len(last.breakouts) = 2
  /\ Len(question.query.breakout) = 3

\* the place of a unit on the ladder; a unit that is not on it comes last
UnitRank(unit) ==
  IF indexOf(UNITS, unit) >= 0 THEN indexOf(UNITS, unit) ELSE Len(UNITS)

OnLadder(unit) == indexOf(UNITS, unit) >= 0

LoopLeft == pc = "after" /\ last.op = "updateDateTimeFilter"

\* C16 as stated: the granularity loop terminates for every column unit and
\* range, and when the column's unit is not a ladder unit the unit chosen is a
\* ladder unit.
C16_LoopEndsOnLadderUnit ==
  /\ <>(pc = "after")
  /\ [](LoopLeft => OnLadder(loop.unit))

\* C16: the granularity loop terminates for every column unit and range: each
\* iteration moves the unit strictly down the ladder, and the loop is left at
\* "minute" or at a unit the range spans MIN_INTERVALS times.  From a unit
\* that is not on the ladder the loop makes at most one iteration, to
\* "minute": the unit chosen is "minute" when the clamped range spans fewer
\* than MIN_INTERVALS intervals of the column's unit (milliseconds for a unit
\* moment does not know), and is the column's own unit, not a ladder unit,
\* otherwise.
C16_LoopTerminates ==
  /\ <>(pc = "after")
  /\ [][(pc = "while" /\ pc' = "while")
          => UnitRank(loop'.unit) < UnitRank(loop.unit)]_vars
  /\ [](LoopLeft =>
          /\ (loop.unit = "minute"
                \/ diff(loop.end, loop.start, loop.unit,
                        endOfMillis(last.column.unit)) >= MIN_INTERVALS)
          /\ UnitRank(loop.unit) <= UnitRank(last.column.unit)
          /\ loop.unit =
               findLargestUnit(last.column.unit,
                               clampStart(last.start, last.column.unit),
                               clampEnd(last.end, last.column.unit),
                               endOfMillis(last.column.unit))
          /\ ~OnLadder(last.column.unit) =>
               loop.unit =
                 IF diff(loop.end, loop.start, last.column.unit,
                         endOfMillis(last.column.unit)) < MIN_INTERVALS
                 THEN "minute"
                 ELSE last.column.unit)

\* the loop is left with the unit of a column that is not on the ladder
C16_Witness ==
  /\ LoopLeft
  /\ ~OnLadder(last.column.unit)
  /\ loop.unit = last.column.unit

\* no two filters of q that have a dimension are on the same base dimension
OneFilterPerDimension(q) ==
  \A i, j \in 1..Len(q.filter) :
    (/\ i < j
     /\ Filter_dimension(q.filter[i]) # NoField
     /\ Filter_dimension(q.filter[j]) # NoField)
      => ~isSameBaseDimension(Filter_dimension(q.filter[i]),
                              Filter_dimension(q.filter[j]))

OneBreakoutPerDimension(q) ==
  \A i, j \in 1..Len(q.breakout) :
    i < j => ~isSameBaseDimension(q.breakout[i], q.breakout[j])

\* the question the calls of the filter specification started from
StartedFrom == last.prevBefore

\* C17: from a structured query with no filters, after any sequence of
\* addOrUpdateFilter, drillFilter, updateNumericFilter, updateLatLonFilter,
\* updateDateTimeFilter and addOrUpdateBreakout calls, the query never holds
\* two filters on the same base dimension, and never holds two breakouts on
\* the same base dimension when it started with no breakouts.
C17_OneFilterAndBreakoutPerDimension ==
  /\ OneFilterPerDimension(question.query)
  /\ StartedFrom.query.breakout = <<>>
       => OneBreakoutPerDimension(question.query)

\* a third call, on a date column that already had a filter and a breakout,
\* with a filter on another column present
C17_Witness ==
  /\ last.op = "updateDateTimeFilter"
  /\ nsteps = MaxCalls
  /\ StartedFrom.query.breakout = <<>>
  /\ FiltersOn(last.before.query, last.column.id) # {}
  /\ BreakoutsOn(last.before.query, last.column.id) # {}
  /\ FiltersOn(question.query, last.column.id) # {}
  /\ Len(question.query.filter) >= 2

(***************************************************************************)
(* Claims about the query description.                                     *)
(***************************************************************************)
Described == last.op = "generateQueryDescription"

\* the description of the question's query with one section requested
OnlySection(section) ==
  generateQueryDescription(tableMetadata, question.query,
                           [sections |-> <<section>>])

\* strings joined with a separator between two of them
RECURSIVE JoinStrings(_, _)
JoinStrings(list, sep) ==
  IF Len(list) = 0
  THEN ""
  ELSE IF Len(list) = 1
       THEN list[1]
       ELSE list[1] \o sep \o JoinStrings(Tail(list), sep)

E2ECall ==
  /\ Described
  /\ question.query = E2EQuery
  /\ options.sections = DefaultSections

\* C5 as stated: the end-to-end example is described with the operator and
\* the operand of its comparison filter, "... Filtered by Status is 5, ...".
C5_ComparisonFilterWithOperand ==
  E2ECall =>
    description
      = "Orders, Count, Grouped by Created At, Filtered by Status is 5, 10 rows"

\* C5, corrected: the end-to-end example is described as "Orders, Count,
\* Grouped by Created At, Filtered by Status, 10 rows": a comparison filter is
\* rendered by the name of its field only, without operator and operand.
C5_ComparisonFilterByFieldName ==
  /\ E2ECall =>
       description
         = "Orders, Count, Grouped by Created At, Filtered by Status, 10 rows"
  /\ (Described /\ question.query.filter = E2EQuery.filter) =>
       OnlySection("filter") = "Filtered by Status"

\* the end-to-end example has been described
C5_Witness == E2ECall /\ description # ""

\* the text of the i-th aggregation clause described alone
AggregationItem(i) ==
  generateQueryDescription(
    tableMetadata,
    [question.query EXCEPT !.aggregation = <<question.query.aggregation[i]>>],
    [sections |-> <<"aggregation">>])

\* "A", "A and B", "A, B, and C"
OxfordComma(items) ==
  CASE Len(items) = 0 -> ""
    [] Len(items) = 1 -> items[1]
    [] Len(items) = 2 -> items[1] \o " and " \o items[2]
    [] OTHER -> JoinStrings(SubSeq(items, 1, Len(items) - 1), ", ")
                  \o ", and " \o items[Len(items)]

\* C6 as stated: the aggregation section is the Oxford-comma join of the
\* texts of the clauses, each text intact, also when a text has several
\* parts.
C6_AggregationsJoinedByOxfordComma ==
  (Described /\ options.sections = <<"aggregation">>) =>
    description
      = OxfordComma([i \in 1..Len(question.query.aggregation) |->
                       AggregationItem(i)])

\* the description of [sum of Total, count, count] has a comma inside its
\* first item
C6_Witness ==
  /\ Described
  /\ options.sections = <<"aggregation">>
  /\ question.query.aggregation
       = <<Agg("sum", FieldRef(2, "")), Agg("count", NoField),
           Agg("count", NoField)>>
  /\ description = "Sum of ,Total, Count, and Count"

\* whether the clause group of a section is empty or absent
GroupEmpty(q, section) ==
  CASE section = "table"       -> FALSE
    [] section = "aggregation" -> Len(q.aggregation) = 0
    [] section = "breakout"    -> Len(q.breakout) = 0
    [] section = "filter"      -> Len(q.filter) = 0
    [] section = "order-by"    -> Len(q.orderBy) = 0
    [] section = "limit"       -> q.limit = <<>>

NonEmptyString(str) == str # ""

\* C7: the description is the renderings of the requested sections, in the
\* requested order, with the sections of an empty or absent clause group
\* dropped and ", " between two that remain; a section renders as empty text
\* exactly when its clause group is empty or absent.
C7_SectionsInOrderJoinedByComma ==
  Described =>
    /\ description
         = JoinStrings(SelectSeq([i \in 1..Len(options.sections) |->
                                    OnlySection(options.sections[i])],
                                 NonEmptyString),
                       ", ")
    /\ \A i \in 1..Len(options.sections) :
         (OnlySection(options.sections[i]) = "")
           = GroupEmpty(question.query, options.sections[i])

\* five sections were requested out of order, three of them of an empty
\* clause group: before, between and after the two rendered ones
C7_Witness ==
  /\ Described
  /\ options.sections = <<"order-by", "limit", "breakout", "table", "filter">>
  /\ question.query
       = [aggregation |-> <<Agg("count", NoField)>>, breakout |-> <<>>,
          filter |-> <<>>, orderBy |-> <<>>, limit |-> <<10>>]
  /\ description = "10 rows, Orders"

\* the table with a field, a metric and a segment of the unknown id, named
\* by the placeholders
OrdersWithPlaceholders ==
  [Orders EXCEPT
     !.fields = Append(@, [id |-> UnknownId, display_name |-> "[Unknown Field]"]),
     !.metrics = Append(@, [id |-> UnknownId, name |-> "[Unknown Metric]"]),
     !.segments = Append(@, [id |-> UnknownId, name |-> "[Unknown Segment]"])]

\* a reference to the unknown field loses its temporal unit
PlainIfUnknown(ref) ==
  IF isAggregateField(ref)
  THEN ref
  ELSE IF ref.id = UnknownId THEN FieldRef(ref.id, "") ELSE ref

PlainAggregation(a) ==
  IF hasOptions(a)
  THEN [a EXCEPT !.inner = [@ EXCEPT !.field = PlainIfUnknown(@)]]
  ELSE [a EXCEPT !.field = PlainIfUnknown(@)]

RECURSIVE PlainFilter(_)
PlainFilter(f) ==
  CASE f.op \in {"and", "or"} ->
         [f EXCEPT !.args = [i \in 1..Len(f.args) |-> PlainFilter(f.args[i])]]
    [] f.op = "segment" -> f
    [] OTHER -> [f EXCEPT !.field = PlainIfUnknown(@)]

PlainQuery(q) ==
  [aggregation |-> [i \in 1..Len(q.aggregation) |->
                      PlainAggregation(q.aggregation[i])],
   breakout |-> [i \in 1..Len(q.breakout) |-> PlainIfUnknown(q.breakout[i])],
   filter |-> [i \in 1..Len(q.filter) |-> PlainFilter(q.filter[i])],
   orderBy |-> [i \in 1..Len(q.orderBy) |->
                  [q.orderBy[i] EXCEPT !.field = PlainIfUnknown(@)]],
   limit |-> q.limit]

\* C8: a description is produced whatever fails to resolve, and it is the
\* description the query would have if its unknown field, metric and segment
\* were a field, a metric and a segment named "[Unknown Field]", "[Unknown
\* Metric]" and "[Unknown Segment]": every other clause and section is
\* rendered the same.
C8_UnresolvedRenderedAsPlaceholders ==
  Described =>
    description
      = generateQueryDescription(OrdersWithPlaceholders,
                                 PlainQuery(question.query), options)

\* a query with an unknown metric, an unknown segment and an unknown field in
\* its breakouts and its sort has been described
C8_Witness ==
  /\ Described
  /\ options.sections = DefaultSections
  /\ question.query.aggregation = <<Metric(UnknownId)>>
  /\ question.query.filter = <<Segment(1), Segment(UnknownId)>>
  /\ question.query.breakout
       = <<FieldRef(1, "month"), FieldRef(UnknownId, "week")>>
  /\ description
       = "Orders, [Unknown Metric], Grouped by Created At (month) and [Unknown Field], Filtered by Big Orders and [Unknown Segment], Sorted by [Unknown Metric] descending and [Unknown Field] ascending, 1 row"

Formatted == last.op = "formatQueryDescription"

\* C12 as stated: generateQueryDescription returns "" without throwing when
\* the table metadata is missing and when the query is null, and
\* formatQueryDescription returns "" when the payload is null.
C12_MalformedInputGivesEmptyString ==
  /\ (Described /\ (~tableMetadata.present \/ isNull(question.query)))
       => (~last.threw /\ description = "")
  /\ (Formatted /\ isNull(question.query)) => description = ""

\* generateQueryDescription, called with table metadata on a null query and
\* the default sections, threw
C12_Witness ==
  /\ Described
  /\ tableMetadata = Orders
  /\ isNull(question.query)
  /\ options.sections = DefaultSections
  /\ last.threw

\* C13 as stated: formatQueryDescription, on the payload of the display
\* strings of a query, returns the description generateQueryDescription
\* returns of the query.
C13_FormatSameAsGenerate ==
  Formatted =>
    description
      = generateQueryDescription(tableMetadata, question.query, options)

\* the payload of [count, sum of Total] is described without the "and"
C13_Witness ==
  /\ Formatted
  /\ options.sections = <<"aggregation">>
  /\ question.query.aggregation
       = <<Agg("count", NoField), Agg("sum", FieldRef(2, ""))>>
  /\ description = "Count  Sum of Total"

\* C14 as stated: the limit section is the count n, a space and "row" for 1,
\* "rows" otherwise, by generateQueryDescription and by
\* formatQueryDescription, also for n = 0.
C14_LimitCountAndUnitWord ==
  ((Described \/ Formatted)
     /\ options.sections = <<"limit">>
     /\ question.query.limit # <<>>)
    => description
         = ToString(question.query.limit[1]) \o " "
             \o (IF question.query.limit[1] = 1 THEN "row" ELSE "rows")

\* the limit 0 is described as " rows"
C14_Witness ==
  /\ Described
  /\ options.sections = <<"limit">>
  /\ question.query.limit = <<0>>
  /\ description = " rows"

=============================================================================
